---- MODULE Spec2Model ----
(***************************************************************************)
(* The data-access layer of rust-cms: the Page model's CRUD statements     *)
(* (src/models/page_models.rs), the Page/Module inner join, the aggregate  *)
(* view built from a join result, and the r2d2 connection pool             *)
(* (src/models/mod.rs).  The relational backend is modelled by what each   *)
(* SQL statement the code issues does to the pages and modules tables.     *)
(***************************************************************************)
EXTENDS Integers, Sequences, FiniteSets, TLC

VARIABLES
    pages,      \* the rows of the pages table
    modules,    \* the rows of the modules table
    now,        \* the backend's clock (CURRENT_TIMESTAMP)
    last,       \* the last call of the model layer and what it returned:
                \* a count, rows, or the aggregate view built from a join result
    gone,       \* history: the ids a delete removed and no create stored since
    proc,       \* the process: "starting", "running" or "panicked"
    idle,       \* the pool's connections that are not checked out
    pc,         \* per request: "out", "waiting", "holding"
    held,       \* per request: the connection it holds, or NoConn
    outcome     \* per request: what its last step returned

vars == <<pages, modules, now, last, gone, proc, idle, pc, held, outcome>>
storeVars == <<pages, modules, now, last, gone>>
poolVars == <<proc, idle, pc, held, outcome>>

---------------------------------------------------------------------------
(* Bounds of the model. *)
NumNames == 2
MaxTime == 1
NumModules == 2
NumCallers == 3

PageNames == 1..NumNames            \* page_name values (primary keys)
PageUrls == {"/", "/index"}
PageTitles == {"Home", "Home Page"}
Times == 0..MaxTime
ModuleIds == 1..NumModules
ModuleTitles == {"A", "B"}

---------------------------------------------------------------------------
(* Records. *)

\* A row of the pages table.
Page == [page_name: PageNames, page_url: PageUrls, page_title: PageTitles,
         time_created: Times]

\* The insertable and changeset struct.  AsChangeset is derived with no
\* primary_key attribute, so the changeset holds all three fields.
MutPage == [page_name: PageNames, page_url: PageUrls, page_title: PageTitles]

\* The payloads the requests send: the home page before and after its
\* edit, ("/", "Home") and ("/index", "Home Page"), under every page_name.
Payloads ==
    {p \in MutPage : (p.page_url = "/") <=> (p.page_title = "Home")}

\* A row of the modules table: its key, its title and its foreign key.
Module == [module_id: ModuleIds, title: ModuleTitles, page_name: PageNames]

NoRows == << >>

\* The view when none was built.
NoView == [built |-> FALSE, page |-> NoRows, fields |-> NoRows]

\* What a call returned: Ok(count), Ok(rows) or Err(err).
Returned(op, id, found, ok, count, err, rows) ==
    [op |-> op, id |-> id, found |-> found, ok |-> ok, count |-> count,
     err |-> err, rows |-> rows, view |-> NoView]

NoCall == Returned("none", 0, FALSE, TRUE, 0, "", NoRows)

---------------------------------------------------------------------------
(* The pages table. *)

\* pages.filter(page_name.eq(id))
RowsOf(id) == {r \in pages : r.page_name = id}

Stored(id) == RowsOf(id) # {}

RefsOf(id) == {m \in modules : m.page_name = id}

\* The row an insert of new_page writes: time_created is the column default.
Inserted(new_page) ==
    [page_name |-> new_page.page_name, page_url |-> new_page.page_url,
     page_title |-> new_page.page_title, time_created |-> now]

\* The row an update writes over r: every field of the changeset.
Changed(r, new_page) ==
    [page_name |-> new_page.page_name, page_url |-> new_page.page_url,
     page_title |-> new_page.page_title, time_created |-> r.time_created]

\* A create that replaces the stored row on a key collision (REPLACE INTO).
CreateOrReplace(new_page) ==
    /\ pages' = (pages \ RowsOf(new_page.page_name)) \cup {Inserted(new_page)}
    /\ last' = Returned("create", new_page.page_name, Stored(new_page.page_name),
                        TRUE, 1, "", NoRows)
    /\ gone' = gone \ {new_page.page_name}
    /\ UNCHANGED <<modules, now, poolVars>>

\* Page::create: INSERT IGNORE INTO pages.
Create(new_page) ==
    /\ IF Stored(new_page.page_name)
       THEN /\ pages' = pages
            /\ last' = Returned("create", new_page.page_name, TRUE, TRUE, 0, "", NoRows)
       ELSE /\ pages' = pages \cup {Inserted(new_page)}
            /\ last' = Returned("create", new_page.page_name, FALSE, TRUE, 1, "", NoRows)
    /\ gone' = IF Stored(new_page.page_name) THEN gone ELSE gone \ {new_page.page_name}
    /\ UNCHANGED <<modules, now, poolVars>>

\* Page::read_one: SELECT ... WHERE page_name = id LIMIT 1.
ReadOne(id) ==
    /\ IF Stored(id)
       THEN \E r \in RowsOf(id) :
                last' = Returned("read_one", id, TRUE, TRUE, 0, "", <<r>>)
       ELSE last' = Returned("read_one", id, FALSE, FALSE, 0, "NotFound", NoRows)
    /\ UNCHANGED <<pages, modules, now, gone, poolVars>>

\* Page::update: UPDATE pages SET page_name, page_url, page_title
\* WHERE page_name = id.  The count is the number of rows matched.  A new
\* page_name that another row holds violates the primary key; a new
\* page_name for a page that modules refer to is refused or cascades, as the
\* foreign key of the schema says.
Update(id, new_page) ==
    /\ IF ~Stored(id)
       THEN /\ UNCHANGED <<pages, modules>>
            /\ last' = Returned("update", id, FALSE, TRUE, 0, "", NoRows)
       ELSE IF new_page.page_name # id /\ Stored(new_page.page_name)
       THEN /\ UNCHANGED <<pages, modules>>
            /\ last' = Returned("update", id, TRUE, FALSE, 0, "UniqueViolation", NoRows)
       ELSE IF new_page.page_name # id /\ RefsOf(id) # {}
       THEN \/ /\ UNCHANGED <<pages, modules>>
               /\ last' = Returned("update", id, TRUE, FALSE, 0,
                                   "ForeignKeyViolation", NoRows)
            \/ /\ pages' = (pages \ RowsOf(id))
                             \cup {Changed(r, new_page) : r \in RowsOf(id)}
               /\ modules' = (modules \ RefsOf(id))
                             \cup {[m EXCEPT !.page_name = new_page.page_name] :
                                      m \in RefsOf(id)}
               /\ last' = Returned("update", id, TRUE, TRUE,
                                   Cardinality(RowsOf(id)), "", NoRows)
       ELSE /\ pages' = (pages \ RowsOf(id))
                          \cup {Changed(r, new_page) : r \in RowsOf(id)}
            /\ UNCHANGED modules
            /\ last' = Returned("update", id, TRUE, TRUE,
                                Cardinality(RowsOf(id)), "", NoRows)
    /\ UNCHANGED <<now, gone, poolVars>>

\* A delete that reports a missing id the way read_one does.
DeleteOrNotFound(id) ==
    /\ IF Stored(id)
       THEN /\ pages' = pages \ RowsOf(id)
            /\ modules' = modules \ RefsOf(id)
            /\ last' = Returned("delete", id, TRUE, TRUE, Cardinality(RowsOf(id)), "",
                                NoRows)
            /\ gone' = gone \cup {id}
       ELSE /\ UNCHANGED <<pages, modules, gone>>
            /\ last' = Returned("delete", id, FALSE, FALSE, 0, "NotFound", NoRows)
    /\ UNCHANGED <<now, poolVars>>

\* Page::delete: DELETE FROM pages WHERE page_name = id.  A page that
\* modules refer to is refused or cascades, as the foreign key of the
\* schema says.
Delete(id) ==
    /\ IF RefsOf(id) # {} /\ Stored(id)
       THEN \/ /\ UNCHANGED <<pages, modules>>
               /\ last' = Returned("delete", id, TRUE, FALSE, 0,
                                   "ForeignKeyViolation", NoRows)
            \/ /\ pages' = pages \ RowsOf(id)
               /\ modules' = modules \ RefsOf(id)
               /\ last' = Returned("delete", id, TRUE, TRUE,
                                   Cardinality(RowsOf(id)), "", NoRows)
       ELSE /\ pages' = pages \ RowsOf(id)
            /\ UNCHANGED modules
            /\ last' = Returned("delete", id, Stored(id), TRUE,
                                Cardinality(RowsOf(id)), "", NoRows)
    /\ gone' = IF pages' # pages THEN gone \cup {id} ELSE gone
    /\ UNCHANGED <<now, poolVars>>

\* The backend's clock advances.
Tick ==
    /\ now < MaxTime
    /\ now' = now + 1
    /\ UNCHANGED <<pages, modules, last, gone, poolVars>>

---------------------------------------------------------------------------
(* The modules table and the join. *)

\* The orders in which the backend may return a set of rows.
Orderings(S) ==
    {s \in [1..Cardinality(S) -> S] :
        \A i, j \in 1..Cardinality(S) : i # j => s[i] # s[j]}

\* An insert into modules: the backend assigns a free module_id and checks
\* the foreign key into pages.
CreateModule(title, page_name) ==
    /\ IF ~Stored(page_name)
       THEN /\ modules' = modules
            /\ last' = Returned("create_module", page_name, FALSE, FALSE, 0,
                                "ForeignKeyViolation", NoRows)
       ELSE \E mid \in ModuleIds :
               /\ \A m \in modules : m.module_id # mid
               /\ modules' = modules \cup
                     {[module_id |-> mid, title |-> title, page_name |-> page_name]}
               /\ last' = Returned("create_module", page_name, TRUE, TRUE, 1, "", NoRows)
    /\ UNCHANGED <<pages, now, gone, poolVars>>

\* A delete from modules by key.
DeleteModule(mid) ==
    /\ modules' = {m \in modules : m.module_id # mid}
    /\ last' = Returned("delete_module", mid, \E m \in modules : m.module_id = mid,
                        TRUE, Cardinality({m \in modules : m.module_id = mid}), "",
                        NoRows)
    /\ UNCHANGED <<pages, now, gone, poolVars>>

\* A join with no ON condition: every module paired with the page.
JoinRowsNoOn(id) ==
    {<<pg, m>> : pg \in RowsOf(id), m \in modules}

\* pages.inner_join(modules).filter(page_name.eq(id)): the pairs of a page
\* row and a module row whose foreign key is the page's key.
JoinRows(id) ==
    {<<pg, m>> : pg \in RowsOf(id),
                 m \in {x \in modules : x.page_name = id}}

\* Page::read_one_join_on: load::<(Page, Module)> of the join, in the
\* backend's order.
ReadOneJoinOn(id) ==
    /\ \E rows \in Orderings(JoinRows(id)) :
          last' = Returned("join", id, Stored(id), TRUE, 0, "", rows)
    /\ UNCHANGED <<pages, modules, now, gone, poolVars>>

\* HashMap::insert(key, value): the entry for key is replaced.
MapInsert(map, key, value) ==
    [k \in (DOMAIN map) \cup {key} |-> IF k = key THEN value ELSE map[k]]

\* A fold that keeps the first module of a title (entry().or_insert()).
RECURSIVE FoldFieldsKeepFirst(_, _)
FoldFieldsKeepFirst(tuples, map) ==
    IF tuples = << >>
    THEN map
    ELSE FoldFieldsKeepFirst(
             Tail(tuples),
             IF Head(tuples)[2].title \in DOMAIN map
             THEN map
             ELSE MapInsert(map, Head(tuples)[2].title, Head(tuples)[2]))

\* The fields of the view: each tuple's module inserted under its title, in
\* the order of the tuples.
RECURSIVE FoldFields(_, _)
FoldFields(tuples, map) ==
    IF tuples = << >>
    THEN map
    ELSE FoldFields(Tail(tuples), MapInsert(map, Head(tuples)[2].title, Head(tuples)[2]))

\* PageModuleRelation built from a join result: the page of the first tuple
\* and the folded modules; none from an empty result.
RelationOf(tuples) ==
    IF tuples = << >>
    THEN NoView
    ELSE [built |-> TRUE, page |-> tuples[1][1], fields |-> FoldFields(tuples, << >>)]

\* The aggregate view builder applied to the join result just read.
BuildView ==
    /\ last.op = "join"
    /\ last.ok
    /\ last' = [Returned("build_view", last.id, last.found, last.rows # << >>, 0,
                         IF last.rows = << >> THEN "NotFound" ELSE "", last.rows)
                   EXCEPT !.view = RelationOf(last.rows)]
    /\ UNCHANGED <<pages, modules, now, gone, poolVars>>

---------------------------------------------------------------------------
(* The connection pool. *)

\* Pool::builder().max_size(2)
MaxSize == 2

Conns == 1..MaxSize
NoConn == 0
Callers == 1..NumCallers

Holders == {c \in Callers : held[c] # NoConn}
Waiters == {c \in Callers : pc[c] = "waiting"}

\* init_pool: build(manager) returns the pool, or PoolError when the
\* backend cannot be reached.
InitPool(reachable) == IF reachable THEN "Ok" ELSE "PoolError"

\* establish_database_connection: Some(init_pool(..).expect(..)); expect
\* panics on Err.
EstablishDatabaseConnection ==
    /\ proc = "starting"
    /\ \E reachable \in BOOLEAN :
          IF InitPool(reachable) = "Ok"
          THEN proc' = "running" /\ idle' = Conns
          ELSE proc' = "panicked" /\ idle' = idle
    /\ UNCHANGED <<pc, held, outcome, storeVars>>

\* pool_handler: pool.get() takes an idle connection, or blocks when none
\* is idle.
PoolHandler(c) ==
    /\ proc = "running"
    /\ pc[c] = "out"
    /\ IF idle # {}
       THEN \E k \in idle :
               /\ idle' = idle \ {k}
               /\ held' = [held EXCEPT ![c] = k]
               /\ pc' = [pc EXCEPT ![c] = "holding"]
               /\ outcome' = [outcome EXCEPT ![c] = "Ok"]
       ELSE /\ pc' = [pc EXCEPT ![c] = "waiting"]
            /\ outcome' = [outcome EXCEPT ![c] = "none"]
            /\ UNCHANGED <<idle, held>>
    /\ UNCHANGED <<proc, storeVars>>

\* pool.get() of a blocked request is woken and takes a returned connection.
Grant(c) ==
    /\ pc[c] = "waiting"
    /\ \E k \in idle :
          /\ idle' = idle \ {k}
          /\ held' = [held EXCEPT ![c] = k]
          /\ pc' = [pc EXCEPT ![c] = "holding"]
          /\ outcome' = [outcome EXCEPT ![c] = "Ok"]
    /\ UNCHANGED <<proc, storeVars>>

\* pool.get() of a blocked request times out: .or(Err(CustomHttpError::Unknown)).
Timeout(c) ==
    /\ pc[c] = "waiting"
    /\ pc' = [pc EXCEPT ![c] = "out"]
    /\ outcome' = [outcome EXCEPT ![c] = "Unknown"]
    /\ UNCHANGED <<proc, idle, held, storeVars>>

\* A release that returns the connection on the Ok path only.
ReleaseOnOkOnly(c, ok) ==
    /\ pc[c] = "holding"
    /\ idle' = IF ok THEN idle \cup {held[c]} ELSE idle
    /\ held' = [held EXCEPT ![c] = NoConn]
    /\ pc' = [pc EXCEPT ![c] = "out"]
    /\ outcome' = [outcome EXCEPT ![c] = IF ok THEN "Done" ELSE "Failed"]
    /\ UNCHANGED <<proc, storeVars>>

\* The holder's operation returns Ok or Err and the MySQLPooledConnection
\* goes out of scope: its drop returns the connection to the pool.
Release(c, ok) ==
    /\ pc[c] = "holding"
    /\ idle' = idle \cup {held[c]}
    /\ held' = [held EXCEPT ![c] = NoConn]
    /\ pc' = [pc EXCEPT ![c] = "out"]
    /\ outcome' = [outcome EXCEPT ![c] = IF ok THEN "Done" ELSE "Failed"]
    /\ UNCHANGED <<proc, storeVars>>

---------------------------------------------------------------------------
StoreInit ==
    /\ pages = {}
    /\ modules = {}
    /\ now = 0
    /\ last = NoCall
    /\ gone = {}

PoolIdle ==
    /\ proc = "starting"
    /\ idle = {}
    /\ pc = [c \in Callers |-> "out"]
    /\ held = [c \in Callers |-> NoConn]
    /\ outcome = [c \in Callers |-> "none"]

Init == StoreInit /\ PoolIdle

Next ==
    \/ \E p \in Payloads : Create(p)
    \/ \E id \in PageNames : ReadOne(id)
    \/ \E id \in PageNames, p \in Payloads : Update(id, p)
    \/ \E id \in PageNames : Delete(id)
    \/ Tick

Spec == Init /\ [][Next]_vars

\* The payloads of the join specification: one per page_name.
JoinPayloads == {p \in Payloads : p.page_url = "/"}

JoinNext ==
    \/ \E p \in JoinPayloads : Create(p)
    \/ \E id \in PageNames, p \in JoinPayloads : Update(id, p)
    \/ \E id \in PageNames : Delete(id)
    \/ \E t \in ModuleTitles, n \in PageNames : CreateModule(t, n)
    \/ \E mid \in ModuleIds : DeleteModule(mid)
    \/ \E id \in PageNames : ReadOneJoinOn(id)
    \/ BuildView

JoinSpec == Init /\ [][JoinNext]_vars

PoolNext ==
    \/ EstablishDatabaseConnection
    \/ \E c \in Callers : PoolHandler(c)
    \/ \E c \in Callers : Grant(c)
    \/ \E c \in Callers : Timeout(c)
    \/ \E c \in Callers, ok \in BOOLEAN : Release(c, ok)

PoolSpec == Init /\ [][PoolNext]_vars

\* A blocked pool.get() waits on the pool's condition variable, which a
\* returned connection signals: a wake-up that stays possible happens.
FairPoolSpec == Init /\ [][PoolNext]_vars /\ WF_vars(\E c \in Callers : Grant(c))

---------------------------------------------------------------------------
(* Properties of Page::create, read_one, update and delete (Spec). *)

NamesIn(table) == {r.page_name : r \in table}

\* C1: create is insert-or-ignore.  A create whose page_name is already
\* stored returns Ok(0) and leaves the pages table as it was, so the stored
\* record keeps its first-inserted values; a create on a fresh key returns
\* Ok(1) and stores the key, so a second create of it returns Ok(0).
C1_CreateInsertOrIgnore ==
    [][\A p \in MutPage :
          Create(p) =>
             IF Stored(p.page_name)
             THEN last'.ok /\ last'.count = 0 /\ pages' = pages
             ELSE last'.ok /\ last'.count = 1
                  /\ \E r \in pages' : r.page_name = p.page_name]_vars

\* A create on a stored key has returned Ok(0).
C1_Witness ==
    last.op = "create" /\ last.found /\ last.ok /\ last.count = 0

\* C2: a create on a fresh key followed by read_one of that key returns the
\* payload's fields with time_created set at the insert, and after an update
\* of that page read_one of the key still returns the time_created of the
\* insert.
C2_CreateReadRoundTrip ==
    [][/\ \A p \in MutPage :
             ~Stored(p.page_name) /\ Create(p) =>
                {r \in pages' : r.page_name = p.page_name} = {Inserted(p)}
       /\ \A id \in PageNames, p \in MutPage :
             Stored(id) /\ Update(id, p) =>
                /\ \E r \in pages' : r.page_name = id
                /\ \A r \in pages' :
                      r.page_name = id =>
                         \E q \in RowsOf(id) : r.time_created = q.time_created]_vars

\* C3: an update of a stored id overwrites every writable field, and a
\* read_one of the same id then succeeds and returns the payload's
\* page_name, page_url and page_title with the original time_created.
C3_UpdateThenReadOne ==
    [][\A id \in PageNames, p2 \in MutPage :
          Stored(id) /\ Update(id, p2) =>
             /\ \E r \in pages' : r.page_name = id
             /\ \A r \in pages' :
                   r.page_name = id =>
                      \E q \in RowsOf(id) : r = Changed(q, p2)]_vars

\* C4: page_name is unique in every reachable table, and no update changes
\* the set of stored page_name values, whatever page_name its payload holds.
C4_KeysNeverReassigned ==
    [][/\ \A r1, r2 \in pages' : r1.page_name = r2.page_name => r1 = r2
       /\ \A id \in PageNames, p \in MutPage :
             Update(id, p) => NamesIn(pages') = NamesIn(pages)]_vars

\* C5: an update or a delete of an id that is not stored returns Ok(0) and
\* leaves the tables unchanged.
C5_AbsentIdIsZeroCount ==
    [][\A id \in PageNames :
          ~Stored(id) =>
             /\ \A p \in MutPage :
                   Update(id, p) =>
                      last'.ok /\ last'.count = 0
                      /\ pages' = pages /\ modules' = modules
             /\ Delete(id) =>
                   last'.ok /\ last'.count = 0
                   /\ pages' = pages /\ modules' = modules]_vars

\* An update of an id that is not stored has returned Ok(0) on a table that
\* holds other pages.
C5_Witness ==
    last.op = "update" /\ ~last.found /\ last.ok /\ last.count = 0 /\ pages # {}

\* C6: a delete of a stored id returns 1 and removes that row and no other;
\* from then on, until a create stores that page_name again, the id has no
\* row, so read_one of it fails with NotFound; read_one of an id with no row
\* always fails with NotFound.
C6_DeleteThenNotFound ==
    /\ [][/\ \A id \in PageNames :
                Stored(id) /\ Delete(id) =>
                   last'.ok /\ last'.count = 1 /\ pages' = pages \ RowsOf(id)
          /\ \A id \in PageNames :
                (ReadOne(id) /\ ~Stored(id)) =>
                   ~last'.ok /\ last'.err = "NotFound"]_vars
    /\ [](\A id \in gone : ~Stored(id))

---------------------------------------------------------------------------
(* Properties of the join and of the aggregate view (JoinSpec). *)

LastWith(tuples, title) ==
    CHOOSE i \in DOMAIN tuples :
        /\ tuples[i][2].title = title
        /\ \A j \in DOMAIN tuples : tuples[j][2].title = title => j <= i

\* C8: the view built from a non-empty join result has the page of the
\* first tuple and one entry per module title in the tuples, holding the
\* module of the last tuple with that title; an empty result builds no view.
C8_AggregateView ==
    last.op = "build_view" =>
        IF last.rows = << >>
        THEN ~last.view.built /\ ~last.ok
        ELSE /\ last.view.built
             /\ last.view.page = last.rows[1][1]
             /\ DOMAIN last.view.fields =
                   {last.rows[i][2].title : i \in DOMAIN last.rows}
             /\ \A t \in DOMAIN last.view.fields :
                   last.view.fields[t] = last.rows[LastWith(last.rows, t)][2]

\* A view has been built from two tuples whose modules share a title.
C8_Witness ==
    /\ last.op = "build_view"
    /\ Len(last.rows) = 2
    /\ last.rows[1][2].title = last.rows[2][2].title

---------------------------------------------------------------------------
(* Properties of the pool (PoolSpec, FairPoolSpec). *)

PoolSafe ==
    /\ Cardinality(Holders) <= MaxSize
    /\ \A c1, c2 \in Holders : c1 # c2 => held[c1] # held[c2]
    /\ \A c \in Callers : pc[c] # "holding" => held[c] = NoConn
    /\ proc = "running" =>
          /\ idle \cup {held[c] : c \in Holders} = Conns
          /\ idle \cap {held[c] : c \in Holders} = {}

C10_NoPanic ==
    /\ proc # "panicked"
    /\ \A c \in Callers : outcome[c] \in {"none", "Ok", "Unknown", "Done", "Failed"}

====
